---- MODULE Spec2Model ----
(***************************************************************************)
(* On-demand retrieval (ODR) store routines of the light client,           *)
(* light/odr.go: the five request variants, their StoreResult methods,     *)
(* the proof store (storeProof) and the OdrBackend.Retrieve contract.      *)
(*                                                                         *)
(* The database is a partial map from keys to values.  Keys of proof nodes *)
(* and contract code are raw content hashes (both share one key space, as  *)
(* in the code: db.Put(hash, buf) and db.Put(req.Hash[:], req.Data));      *)
(* headers, total difficulties, canonical hashes, bodies and receipts live *)
(* under structured per-block keys.                                        *)
(***************************************************************************)
EXTENDS Integers, Sequences, FiniteSets, TLC

VARIABLES
    db,        \* database contents: partial function key -> value
    reject,    \* keys whose writes the database currently rejects
    puts,      \* writes issued by the last call: <<key, value, accepted>>
    failed,    \* some write of the last call was rejected by the database
    op,        \* last event: "none", "store", "retrieve", "running", "crash"
    lastReq,   \* request of the last completed call
    dbPre,     \* database contents right before the last call
    twice,     \* the last call was StoreResult, repeating the call before it
    err,       \* value returned by the last Retrieve
    stores,    \* number of StoreResult invocations made by the last Retrieve
    ctxPre,    \* the context of the last Retrieve was cancelled before the call
    nOps,      \* number of calls made (proof nodes handed out) so far
    cht,       \* position of an in-progress ChtRequest.StoreResult
    procs,     \* positions of the concurrent storeProof invocations
    db0        \* database contents when the concurrent invocations started

vars == <<db, reject, puts, failed, op, lastReq, dbPre, twice, err, stores,
          ctxPre, nOps, cht, procs, db0>>

(***************************************************************************)
(* Bounds                                                                  *)
(***************************************************************************)
MaxByte      == 0  \* byte values 0..MaxByte
MaxProof     == 2  \* a proof has at most MaxProof nodes
MaxNum       == 2  \* block numbers 1..MaxNum
MaxExtra     == 1  \* distinguishes headers with the same number
MaxTd        == 2  \* total difficulties 1..MaxTd
MaxOps       == 2  \* StoreResult calls per behaviour
MaxRetrieves == 1  \* Retrieve calls per behaviour
MaxChtRuns   == 3  \* stepwise ChtRequest.StoreResult executions per behaviour
NumProcs     == 2  \* concurrent storeProof invocations
MaxNodes     == 4  \* proof nodes handed to the concurrent invocations

SeqsUpTo(S, n) == UNION {[1..k -> S] : k \in 0..n}

\* byte sequences: the empty one and the one-byte ones
Bytes   == {<<>>} \cup {<<b>> : b \in 0..MaxByte}
Proofs  == SeqsUpTo(Bytes, MaxProof)
Numbers == 1..MaxNum
Headers == [number : Numbers, extra : 0..MaxExtra]
Tds     == 1..MaxTd

(***************************************************************************)
(* crypto.Keccak256: a collision-free content hash.  Modelled as the       *)
(* bijective numeration of the byte sequence, which is injective on byte   *)
(* sequences and is not the identity.                                      *)
(***************************************************************************)
RECURSIVE Keccak256(_)
Keccak256(buf) ==
    IF buf = <<>> THEN 0
    ELSE (Head(buf) + 1) + (MaxByte + 2) * Keccak256(Tail(buf))

Hashes == {Keccak256(b) : b \in Bytes}

\* types.Header.Hash(): content hash of the header
HeaderHash(h) == h.number * (MaxExtra + 1) + h.extra

\* Header.Number.Uint64()
HeaderNumber(h) == h.number

\* encoded header as stored in the header record
EncodeHeader(h) == <<h.number, h.extra>>

(***************************************************************************)
(* Keys                                                                    *)
(***************************************************************************)
RawKey(hash)           == <<"raw", hash>>
HeaderKey(hash, num)   == <<"header", hash, num>>
TdKey(hash, num)       == <<"td", hash, num>>
CanonicalKey(num)      == <<"canon", num>>
BodyKey(hash, num)     == <<"body", hash, num>>
ReceiptsKey(hash, num) == <<"receipts", hash, num>>

RawKeys == {RawKey(h) : h \in Hashes}

(***************************************************************************)
(* wtcdb.Database: Get and Put.  A store st carries the contents, the      *)
(* rejected keys, the log of writes and the failure flag.  Get returns the *)
(* empty tuple when the key is absent (val == nil) and <<value>> when      *)
(* present; a stored value, the empty byte sequence included, reads back   *)
(* as a value.  Put on a rejected key changes nothing and returns an       *)
(* error, which the callers in odr.go drop.                                *)
(***************************************************************************)
Nil == <<>>

Get(st, key) == IF key \in DOMAIN st.db THEN <<st.db[key]>> ELSE Nil

Put(st, key, value) ==
    IF key \in st.reject
    THEN [st EXCEPT !.puts = Append(@, <<key, value, FALSE>>),
                    !.failed = TRUE]
    ELSE [st EXCEPT !.db = (key :> value) @@ @,
                    !.puts = Append(@, <<key, value, TRUE>>)]

Store(d, rej) == [db |-> d, reject |-> rej, puts |-> <<>>, failed |-> FALSE]

(***************************************************************************)
(* storeProof: for each node, hash it, look the hash up, write the node if *)
(* the lookup found nothing.                                               *)
(***************************************************************************)
\* val, _ := db.Get(hash); val == nil
storeProofMiss(st, buf) == Get(st, RawKey(Keccak256(buf))) = Nil

storeProofPutBadKey(st, buf) == Put(st, RawKey(Keccak256(<<>>)), buf)

\* db.Put(hash, buf)
storeProofPut(st, buf) == Put(st, RawKey(Keccak256(buf)), buf)

storeProofNodeAlways(st, buf) == storeProofPut(st, buf)

storeProofNodeStopAfterWrite(st, buf) ==
    IF st.puts = <<>> /\ storeProofMiss(st, buf)
    THEN storeProofPut(st, buf) ELSE st

\* one iteration of the loop
storeProofNode(st, buf) ==
    IF storeProofMiss(st, buf) THEN storeProofPut(st, buf) ELSE st

RECURSIVE storeProof(_, _)
storeProof(st, proof) ==
    IF proof = <<>> THEN st
    ELSE storeProof(storeProofNode(st, Head(proof)), Tail(proof))

(***************************************************************************)
(* core.WriteHeader, WriteTd, WriteCanonicalHash, WriteBodyRLP,            *)
(* WriteBlockReceipts: one write each under the record's key.              *)
(***************************************************************************)
WriteHeader(st, header) ==
    Put(st, HeaderKey(HeaderHash(header), HeaderNumber(header)),
        EncodeHeader(header))

WriteTd(st, hash, num, td) == Put(st, TdKey(hash, num), td)

WriteCanonicalHash(st, hash, num) == Put(st, CanonicalKey(num), hash)

WriteBodyRLP(st, hash, num, rlp) == Put(st, BodyKey(hash, num), rlp)

WriteBlockReceipts(st, hash, num, receipts) ==
    Put(st, ReceiptsKey(hash, num), receipts)

(***************************************************************************)
(* Request variants.  An accepted CodeRequest answer hashes to the         *)
(* requested key; AnyCodeRequests drops that precondition.                 *)
(***************************************************************************)
TrieRequests     == [kind : {"Trie"}, Proof : Proofs]
CodeRequests     == {[kind |-> "Code", Hash |-> Keccak256(d), Data |-> d] :
                       d \in Bytes}
AnyCodeRequests  == [kind : {"Code"}, Hash : Hashes, Data : Bytes]
BlockRequests    == [kind : {"Block"}, Hash : Hashes, Number : Numbers,
                     Rlp : Bytes]
ReceiptsRequests == [kind : {"Receipts"}, Hash : Hashes, Number : Numbers,
                     Receipts : Bytes]
ChtRequests      == [kind : {"Cht"}, Header : Headers, Td : Tds]

Requests == TrieRequests \cup CodeRequests \cup BlockRequests
            \cup ReceiptsRequests \cup ChtRequests

AnyRequests == Requests \cup AnyCodeRequests

(***************************************************************************)
(* StoreResult methods                                                     *)
(***************************************************************************)
TrieStoreResult(st, req) == storeProof(st, req.Proof)

CodeStoreResultIfAbsent(st, req) ==
    IF Get(st, RawKey(req.Hash)) = Nil
    THEN Put(st, RawKey(req.Hash), req.Data) ELSE st

CodeStoreResult(st, req) == Put(st, RawKey(req.Hash), req.Data)

BlockStoreResult(st, req) == WriteBodyRLP(st, req.Hash, req.Number, req.Rlp)

ReceiptsStoreResult(st, req) ==
    WriteBlockReceipts(st, req.Hash, req.Number, req.Receipts)

StoredTd(st, hash, num) ==
    IF TdKey(hash, num) \in DOMAIN st.db THEN st.db[TdKey(hash, num)] ELSE 0

ChtWriteCanonicalFirst(st, req, i) ==
    LET hash == HeaderHash(req.Header)
        num  == HeaderNumber(req.Header)
    IN  CASE i = 1 -> WriteCanonicalHash(st, hash, num)
          [] i = 2 -> WriteTd(st, hash, num, req.Td)
          [] i = 3 -> WriteHeader(st, req.Header)

ChtWriteCanonicalIfAbsent(st, req, i) ==
    LET hash == HeaderHash(req.Header)
        num  == HeaderNumber(req.Header)
    IN  CASE i = 1 -> WriteHeader(st, req.Header)
          [] i = 2 -> WriteTd(st, hash, num, req.Td)
          [] i = 3 -> IF Get(st, CanonicalKey(num)) = Nil
                      THEN WriteCanonicalHash(st, hash, num) ELSE st

ChtWriteAddTd(st, req, i) ==
    LET hash == HeaderHash(req.Header)
        num  == HeaderNumber(req.Header)
    IN  CASE i = 1 -> WriteHeader(st, req.Header)
          [] i = 2 -> WriteTd(st, hash, num, StoredTd(st, hash, num) + req.Td)
          [] i = 3 -> WriteCanonicalHash(st, hash, num)

\* the i-th of the three writes of ChtRequest.StoreResult
ChtWrite(st, req, i) ==
    LET hash == HeaderHash(req.Header)
        num  == HeaderNumber(req.Header)
    IN  CASE i = 1 -> WriteHeader(st, req.Header)
          [] i = 2 -> WriteTd(st, hash, num, req.Td)
          [] i = 3 -> WriteCanonicalHash(st, hash, num)

ChtStoreResult(st, req) ==
    ChtWrite(ChtWrite(ChtWrite(st, req, 1), req, 2), req, 3)

\* OdrRequest.StoreResult, dispatched on the variant
StoreResult(st, req) ==
    CASE req.kind = "Trie"     -> TrieStoreResult(st, req)
      [] req.kind = "Code"     -> CodeStoreResult(st, req)
      [] req.kind = "Block"    -> BlockStoreResult(st, req)
      [] req.kind = "Receipts" -> ReceiptsStoreResult(st, req)
      [] req.kind = "Cht"      -> ChtStoreResult(st, req)

(***************************************************************************)
(* OdrBackend.Retrieve: the request is sent to the network; the answer is  *)
(* stored only when one was obtained and accepted.  StoreResult returns    *)
(* nothing, so what Retrieve returns cannot depend on the store's writes.  *)
(***************************************************************************)
Outcomes == {"ok", "deadline exceeded", "context canceled", "no peer",
             "verification failed"}

RetrieveIgnoreCancel(st, cancelled, outcome, req) ==
    IF outcome # "ok" /\ ~cancelled
    THEN [st |-> st, err |-> outcome, stores |-> 0]
    ELSE [st |-> StoreResult(st, req), err |-> "nil", stores |-> 1]

RetrieveStoreEarly(st, cancelled, outcome, req) ==
    IF cancelled
    THEN [st |-> st, err |-> "context canceled", stores |-> 0]
    ELSE IF outcome = "verification failed"
    THEN [st |-> StoreResult(st, req), err |-> outcome, stores |-> 1]
    ELSE IF outcome # "ok"
    THEN [st |-> st, err |-> outcome, stores |-> 0]
    ELSE [st |-> StoreResult(st, req), err |-> "nil", stores |-> 1]

Retrieve(st, cancelled, outcome, req) ==
    IF cancelled
    THEN [st |-> st, err |-> "context canceled", stores |-> 0]
    ELSE IF outcome # "ok"
    THEN [st |-> st, err |-> outcome, stores |-> 0]
    ELSE [st |-> StoreResult(st, req), err |-> "nil", stores |-> 1]

(***************************************************************************)
(* Sequential callers                                                      *)
(***************************************************************************)
NoReq == [kind |-> "none"]
Idle  == [pc |-> "idle"]

InitCommon ==
    /\ reject = {}
    /\ puts = <<>>
    /\ failed = FALSE
    /\ op = "none"
    /\ lastReq = NoReq
    /\ dbPre = <<>>
    /\ twice = FALSE
    /\ err = "nil"
    /\ stores = 0
    /\ ctxPre = FALSE
    /\ nOps = 0
    /\ cht = Idle

\* answers stored by earlier retrievals: a proof node, a
\* body, receipts and a CHT entry, all of block 1
SeedRequests ==
    << [kind |-> "Trie", Proof |-> << <<0>> >>],
       [kind |-> "Block", Hash |-> Keccak256(<<0>>), Number |-> 1,
        Rlp |-> <<0>>],
       [kind |-> "Receipts", Hash |-> Keccak256(<<0>>), Number |-> 1,
        Receipts |-> <<0>>],
       [kind |-> "Cht", Header |-> [number |-> 1, extra |-> 0], Td |-> 1] >>

RECURSIVE StoreAll(_, _)
StoreAll(st, reqs) ==
    IF reqs = <<>> THEN st
    ELSE StoreAll(StoreResult(st, Head(reqs)), Tail(reqs))

\* the database a backend is opened on: new, or filled by earlier retrievals
InitDbs == {<<>>, StoreAll(Store(<<>>, {}), SeedRequests).db}

Init ==
    /\ InitCommon
    /\ db \in InitDbs
    /\ db0 = <<>>
    /\ procs = <<>>

\* a database without canonical-hash records
InitEmpty ==
    /\ InitCommon
    /\ db = <<>>
    /\ db0 = <<>>
    /\ procs = <<>>

\* a caller invokes req.StoreResult(db)
CallStoreResult(req) ==
    /\ nOps < MaxOps
    /\ LET st == StoreResult(Store(db, reject), req)
       IN  /\ db' = st.db
           /\ puts' = st.puts
           /\ failed' = st.failed
    /\ op' = "store"
    /\ twice' = (op = "store" /\ lastReq = req)
    /\ lastReq' = req
    /\ dbPre' = db
    /\ nOps' = nOps + 1
    /\ UNCHANGED <<reject, err, stores, ctxPre, cht, procs, db0>>

\* a caller invokes backend.Retrieve(ctx, req); a context cancelled before
\* the call makes the wait for an answer end with the context's error
CallRetrieve(cancelled, outcome, req) ==
    /\ nOps < MaxRetrieves
    /\ cancelled => outcome = "context canceled"
    /\ LET r == Retrieve(Store(db, reject), cancelled, outcome, req)
       IN  /\ db' = r.st.db
           /\ puts' = r.st.puts
           /\ failed' = r.st.failed
           /\ err' = r.err
           /\ stores' = r.stores
    /\ op' = "retrieve"
    /\ twice' = FALSE
    /\ lastReq' = req
    /\ dbPre' = db
    /\ ctxPre' = cancelled
    /\ nOps' = nOps + 1
    /\ UNCHANGED <<reject, cht, procs, db0>>

\* the database starts rejecting writes to a key
DbFault(key) ==
    /\ key \notin reject
    /\ reject' = reject \cup {key}
    /\ UNCHANGED <<db, puts, failed, op, lastReq, dbPre, twice, err, stores,
                   ctxPre, nOps, cht, procs, db0>>

\* the database accepts all writes again
DbRecover ==
    /\ reject # {}
    /\ reject' = {}
    /\ UNCHANGED <<db, puts, failed, op, lastReq, dbPre, twice, err, stores,
                   ctxPre, nOps, cht, procs, db0>>

\* StoreResult calls with accepted answers
Next == \E req \in Requests : CallStoreResult(req)

Spec == Init /\ [][Next]_vars

\* StoreResult calls with any field values
NextUnchecked == \E req \in AnyRequests : CallStoreResult(req)

SpecUnchecked == Init /\ [][NextUnchecked]_vars

\* Retrieve calls
NextRetrieve ==
    \E c \in BOOLEAN, o \in Outcomes, req \in Requests :
        CallRetrieve(c, o, req)

SpecRetrieve == Init /\ [][NextRetrieve]_vars

\* Retrieve calls on a database that may reject writes of raw-hash keys
NextFault ==
    \/ \E c \in BOOLEAN, o \in Outcomes, req \in Requests :
          CallRetrieve(c, o, req)
    \/ \E key \in RawKeys : DbFault(key)
    \/ DbRecover

SpecFault == Init /\ [][NextFault]_vars

(***************************************************************************)
(* ChtRequest.StoreResult write by write, with crashes between the writes  *)
(***************************************************************************)
ChtBegin(req) ==
    /\ cht.pc = "idle"
    /\ nOps < MaxChtRuns
    /\ LET st == ChtWrite(Store(db, reject), req, 1)
       IN  /\ db' = st.db
           /\ puts' = st.puts
           /\ failed' = st.failed
    /\ cht' = [pc |-> "run", req |-> req, done |-> 1]
    /\ dbPre' = db
    /\ op' = "running"
    /\ lastReq' = req
    /\ twice' = FALSE
    /\ nOps' = nOps + 1
    /\ UNCHANGED <<reject, err, stores, ctxPre, procs, db0>>

ChtContinue ==
    /\ cht.pc = "run"
    /\ LET i  == cht.done + 1
           st == ChtWrite([Store(db, reject) EXCEPT !.puts = puts],
                          cht.req, i)
       IN  /\ db' = st.db
           /\ puts' = st.puts
           /\ failed' = (failed \/ st.failed)
           /\ cht' = IF i = 3 THEN Idle ELSE [cht EXCEPT !.done = i]
           /\ op' = IF i = 3 THEN "store" ELSE op
    /\ UNCHANGED <<reject, lastReq, dbPre, twice, err, stores, ctxPre, nOps,
                   procs, db0>>

\* the process dies between two writes; the database keeps what was written
Crash ==
    /\ cht.pc = "run"
    /\ cht' = Idle
    /\ op' = "crash"
    /\ UNCHANGED <<db, reject, puts, failed, lastReq, dbPre, twice, err,
                   stores, ctxPre, nOps, procs, db0>>

NextCrash ==
    \/ \E req \in ChtRequests : ChtBegin(req)
    \/ ChtContinue
    \/ Crash

SpecCrash == InitEmpty /\ [][NextCrash]_vars

(***************************************************************************)
(* Concurrent storeProof invocations on one database: Get and Put are each *)
(* atomic, the pair is not.                                                *)
(***************************************************************************)
Procs == 1..NumProcs

\* databases holding some proof nodes under their hashes
ContentDbs ==
    {[k \in {RawKey(Keccak256(b)) : b \in S} |->
        CHOOSE b \in S : RawKey(Keccak256(b)) = k] : S \in SUBSET Bytes}

InitConc ==
    /\ InitCommon
    /\ db \in ContentDbs
    /\ db0 = db
    /\ procs = [p \in Procs |-> [pc |-> "idle", proof |-> <<>>, i |-> 0]]

Advance(pr) ==
    IF pr.i = Len(pr.proof)
    THEN [pr EXCEPT !.pc = "done"]
    ELSE [pr EXCEPT !.pc = "get", !.i = pr.i + 1]

ProcStart(p, proof) ==
    /\ procs[p].pc = "idle"
    /\ nOps + Len(proof) <= MaxNodes
    /\ nOps' = nOps + Len(proof)
    /\ procs' = [procs EXCEPT ![p] = Advance([@ EXCEPT !.proof = proof])]
    /\ UNCHANGED <<db, reject, puts, failed, op, lastReq, dbPre, twice, err,
                   stores, ctxPre, cht, db0>>

ProcGet(p) ==
    /\ procs[p].pc = "get"
    /\ procs' = [procs EXCEPT ![p] =
          IF storeProofMiss(Store(db, reject), @.proof[@.i])
          THEN [@ EXCEPT !.pc = "put"]
          ELSE Advance(@)]
    /\ UNCHANGED <<db, reject, puts, failed, op, lastReq, dbPre, twice, err,
                   stores, ctxPre, nOps, cht, db0>>

ProcPut(p) ==
    /\ procs[p].pc = "put"
    /\ LET st == storeProofPut([Store(db, reject) EXCEPT !.puts = puts],
                               procs[p].proof[procs[p].i])
       IN  /\ db' = st.db
           /\ puts' = st.puts
           /\ failed' = (failed \/ st.failed)
    /\ procs' = [procs EXCEPT ![p] = Advance(@)]
    /\ UNCHANGED <<reject, op, lastReq, dbPre, twice, err, stores, ctxPre,
                   nOps, cht, db0>>

NextConc ==
    \/ \E p \in Procs, proof \in Proofs : ProcStart(p, proof)
    \/ \E p \in Procs : ProcGet(p)
    \/ \E p \in Procs : ProcPut(p)

SpecConc == InitConc /\ [][NextConc]_vars

AllDone == \A p \in Procs : procs[p].pc = "done"

Orders == {o \in [Procs -> Procs] : \A p, q \in Procs : o[p] = o[q] => p = q}

\* the database after running the invocations one after the other
RECURSIVE SeqRun(_, _, _)
SeqRun(d, order, n) ==
    IF n > NumProcs THEN d
    ELSE SeqRun(storeProof(Store(d, {}), procs[order[n]].proof).db,
                order, n + 1)

(***************************************************************************)
(* Properties                                                              *)
(***************************************************************************)
HeaderHashes == {HeaderHash(h) : h \in Headers}

\* keys that differ between two database contents
Changed(d1, d2) ==
    {k \in DOMAIN d1 \cup DOMAIN d2 :
        ~(k \in DOMAIN d1 /\ k \in DOMAIN d2 /\ d1[k] = d2[k])}

\* the keys under which the nodes of a proof are stored
ProofKeys(proof) == {RawKey(Keccak256(proof[i])) : i \in 1..Len(proof)}

\* C1: calling StoreResult twice in a row with the same accepted answer
\* leaves the database as the first call left it, and the second call meets
\* no error.
C1_StoreTwiceSameAsOnce == twice => (db = dbPre /\ ~failed)

C1_Witness ==
    /\ twice
    /\ lastReq.kind = "Cht"
    /\ CanonicalKey(lastReq.Header.number) \in DOMAIN db
    /\ \E k \in DOMAIN db : k[1] # "header" /\ k[1] # "td" /\ k[1] # "canon"

\* C2: a write rejected by the database during the store of a Retrieve makes
\* that Retrieve return an error.
C2_StoreFailurePropagated == (op = "retrieve" /\ failed) => err # "nil"

\* C3: in every database state reached by ChtRequest.StoreResult executions
\* that may crash between their writes, a canonical-hash record number -> hash
\* comes with the header record of that hash and the total-difficulty record
\* of (hash, number); a number for which only header writes have been applied
\* has no canonical-hash record.
C3_CanonicalImpliesHeaderAndTd ==
    \A n \in Numbers :
        /\ CanonicalKey(n) \in DOMAIN db =>
              /\ HeaderKey(db[CanonicalKey(n)], n) \in DOMAIN db
              /\ TdKey(db[CanonicalKey(n)], n) \in DOMAIN db
        /\ (\A h \in HeaderHashes : TdKey(h, n) \notin DOMAIN db) =>
              CanonicalKey(n) \notin DOMAIN db

C3_Witness ==
    /\ op = "crash"
    /\ \E n \in Numbers : CanonicalKey(n) \in DOMAIN db
    /\ \E h \in Headers :
          /\ HeaderKey(HeaderHash(h), h.number) \in DOMAIN db
          /\ TdKey(HeaderHash(h), h.number) \notin DOMAIN db
          /\ CanonicalKey(h.number) \notin DOMAIN db

\* C4: a Retrieve that returns nil has invoked the request's store routine
\* exactly once; a Retrieve that returns an error has invoked it zero times
\* and the database is as it was before the call.
C4_RetrieveStoresOnceOrNever ==
    op = "retrieve" =>
        /\ err = "nil" =>
              /\ stores = 1
              /\ db = StoreResult(Store(dbPre, {}), lastReq).db
              /\ puts = StoreResult(Store(dbPre, {}), lastReq).puts
        /\ err # "nil" =>
              /\ stores = 0
              /\ db = dbPre
              /\ puts = <<>>

C4_Witness ==
    /\ op = "retrieve"
    /\ err = "verification failed"
    /\ dbPre # <<>>
    /\ StoreResult(Store(dbPre, {}), lastReq).db # dbPre

\* C5: a Retrieve whose context was cancelled before the call returns an
\* error and runs no store routine.
C5_CancelledBeforeCall ==
    (op = "retrieve" /\ ctxPre) =>
        (err # "nil" /\ stores = 0 /\ puts = <<>> /\ db = dbPre)

C5_Witness ==
    /\ op = "retrieve"
    /\ ctxPre
    /\ lastReq.kind = "Trie"
    /\ StoreResult(Store(dbPre, {}), lastReq).db # dbPre

\* C6: storeProof(db, [b, b]) leaves one entry under hash(b), writes at most
\* once, and leaves the database that storeProof(db, [b]) leaves.
DupProof ==
    /\ op = "store"
    /\ lastReq.kind = "Trie"
    /\ Len(lastReq.Proof) = 2
    /\ lastReq.Proof[1] = lastReq.Proof[2]

C6_DuplicateNodeWrittenOnce ==
    DupProof =>
        LET b == lastReq.Proof[1]
            k == RawKey(Keccak256(b))
        IN  /\ k \in DOMAIN db
            /\ db[k] = b
            /\ Len(puts) = (IF k \in DOMAIN dbPre THEN 0 ELSE 1)
            /\ Changed(dbPre, db) \subseteq {k}
            /\ db = storeProof(Store(dbPre, {}), <<b>>).db

C6_Witness ==
    /\ DupProof
    /\ RawKey(Keccak256(lastReq.Proof[1])) \notin DOMAIN dbPre
    /\ dbPre # <<>>

\* C7: after ChtRequest{Header: H, Td: T}.StoreResult has run, the
\* canonical-hash record of H's number is H's hash, the total-difficulty
\* record of (hash, number) is T, and H's header record is present.
C7_ChtEntryStored ==
    (op = "store" /\ lastReq.kind = "Cht") =>
        LET hash == HeaderHash(lastReq.Header)
            num  == HeaderNumber(lastReq.Header)
        IN  /\ Get(Store(db, {}), CanonicalKey(num)) = <<hash>>
            /\ Get(Store(db, {}), TdKey(hash, num)) = <<lastReq.Td>>
            /\ Get(Store(db, {}), HeaderKey(hash, num))
                  = <<EncodeHeader(lastReq.Header)>>

C7_Witness ==
    /\ op = "store"
    /\ lastReq.kind = "Cht"
    /\ CanonicalKey(lastReq.Header.number) \in DOMAIN dbPre
    /\ dbPre[CanonicalKey(lastReq.Header.number)] # HeaderHash(lastReq.Header)

\* C8: CodeRequest{Hash: h, Data: d}.StoreResult writes d under h whether or
\* not h held a value, and changes no other key.
C8_CodeWrittenUnconditionally ==
    (op = "store" /\ lastReq.kind = "Code") =>
        /\ Get(Store(db, {}), RawKey(lastReq.Hash)) = <<lastReq.Data>>
        /\ puts = <<<<RawKey(lastReq.Hash), lastReq.Data, TRUE>>>>
        /\ Changed(dbPre, db) \subseteq {RawKey(lastReq.Hash)}

C8_Witness ==
    /\ op = "store"
    /\ lastReq.kind = "Code"
    /\ RawKey(lastReq.Hash) \in DOMAIN dbPre
    /\ dbPre[RawKey(lastReq.Hash)] # lastReq.Data
    /\ DOMAIN dbPre # {RawKey(lastReq.Hash)}

\* C9: with concurrent storeProof invocations, every write lands under the
\* content hash of the bytes written and the key holds those bytes; when all
\* invocations have finished the database is the one every sequential order
\* of the same invocations produces.
C9_ConcurrentStoreProofConsistent ==
    /\ \A i \in 1..Len(puts) :
          /\ puts[i][1] = RawKey(Keccak256(puts[i][2]))
          /\ puts[i][1] \in DOMAIN db
          /\ db[puts[i][1]] = puts[i][2]
    /\ \A k \in DOMAIN db0 : k \in DOMAIN db /\ db[k] = db0[k]
    /\ AllDone => \A o \in Orders : db = SeqRun(db0, o, 1)

\* two invocations both missed the same key and both wrote it
C9_Witness ==
    /\ AllDone
    /\ \E i, j \in 1..Len(puts) : i < j /\ puts[i][1] = puts[j][1]
    /\ \E p, q \in Procs : procs[p].proof # procs[q].proof
    /\ db0 # <<>>

\* C10: storeProof writes a node only when no value exists under its hash:
\* keys present before keep their values, keys that are not the hash of a
\* node of the proof are unchanged, and afterwards every node of the proof is
\* retrievable under its hash.
C10_StoreProofFrame ==
    (op = "store" /\ lastReq.kind = "Trie") =>
        /\ \A k \in DOMAIN dbPre : k \in DOMAIN db /\ db[k] = dbPre[k]
        /\ Changed(dbPre, db) \subseteq ProofKeys(lastReq.Proof)
        /\ \A i \in 1..Len(puts) : puts[i][1] \notin DOMAIN dbPre
        /\ \A i, j \in 1..Len(puts) : puts[i][1] = puts[j][1] => i = j
        /\ \A i \in 1..Len(lastReq.Proof) :
              Get(Store(db, {}), RawKey(Keccak256(lastReq.Proof[i])))
                 = <<lastReq.Proof[i]>>

\* a proof of which one node was already stored and another is written
C10_Witness ==
    /\ op = "store"
    /\ lastReq.kind = "Trie"
    /\ \E i \in 1..Len(lastReq.Proof) :
          RawKey(Keccak256(lastReq.Proof[i])) \in DOMAIN dbPre
    /\ Len(puts) >= 1
    /\ Len(lastReq.Proof) >= 2

====
